---- MODULE Spec2Model ----
(***************************************************************************)
(* Ride-matching and join-request workflow of the campus carpool          *)
(* application.  Two front ends share the workflow:                       *)
(*   "mu_ride"   - hosted database (supabase-functions.sql) driven by     *)
(*                 mu_ride/src/lib/auth.ts;                               *)
(*   "shadcn-ui" - browser local storage (shadcn-ui/src/lib/storage.ts)   *)
(*                 driven by shadcn-ui/src/pages/SearchRides.tsx.         *)
(* The deployed front end is fixed in the initial state (variable app).   *)
(* A session is one browser tab / database connection.  Every step of a   *)
(* handler that reads or writes the store is one action.  Under Spec a    *)
(* call runs to completion before the next call starts; under SpecConc    *)
(* the steps of calls of different sessions interleave.                   *)
(*                                                                        *)
(* Not modelled: failures of the store itself (network errors, the        *)
(* checkError branch of handleJoinRide), denial of a statement by a       *)
(* row-level-security policy, and the columns of the rows that the        *)
(* workflow never reads (addresses, times, prices, messages).  All rides  *)
(* are active offers created before the first step.                       *)
(***************************************************************************)
EXTENDS Integers, FiniteSets, Sequences, TLC

\* ---------------------------------------------------------------- bounds
NumUsers == 3
NumRides == 1
MaxSeats == 2
NumSessions == 2
MaxRequests == 2

Users == 1..NumUsers
Rides == 1..NumRides
Sessions == 1..NumSessions
RequestIds == 1..MaxRequests
NoUser == 0
NoArg == 0
NoCall == [fn |-> "none"]
\* public.users rows / registered users: rating 0, no ratings
NewUsers == [u \in Users |-> [rating |-> 0, total_ratings |-> 0]]

\* the seat count handleJoinRide writes into a new request
DefaultRequestedSeats == 1

Apps == {"mu_ride", "shadcn-ui"}
request_status == {"pending", "approved", "rejected"}

VARIABLES
    app,              \* which front end / store is deployed
    sched,            \* "serial": one call at a time; "interleaved": steps interleave
    rides,            \* rides table / carpooling_rides: ride id -> row
    ride_passengers,  \* ride id -> set of passenger ids
    ride_requests,    \* set of ride request rows
    notifications,    \* sequence of notification rows
    nextId,           \* next fresh request id (uuid_generate_v4 / generateId)
    attempted,        \* request ids on which an approve call has returned
    user,             \* session -> signed-in user (NoUser before loading)
    loaded,           \* session -> ride ids in the page's `rides` state
    filteredRides,    \* session -> ride ids in the page's `filteredRides` state
    pc,               \* session -> position inside the running handler
    arg,              \* session -> ride id / request id of the current call
    reqCopy,          \* session -> local `requests` array of addRequest
    notifCopy,        \* session -> local `notifications` array of addNotification
    last,             \* the call that returned last: session, argument, outcome
    ratings,          \* ratings table / carpooling_ratings, in insertion order
    users,            \* user id -> stored rating (in hundredths) and rating count
    call,             \* a call of a function of the libraries: name and arguments
    ret               \* what that call returned

\* app, sched and the variables no step of the workflow changes
cfgVars == <<app, sched, ratings, users, call, ret>>
dbVars == <<rides, ride_passengers, ride_requests, notifications, nextId, attempted>>
sessVars == <<user, loaded, filteredRides, pc, arg, reqCopy, notifCopy, last>>
vars == <<app, sched, rides, ride_passengers, ride_requests, notifications, nextId,
          attempted, user, loaded, filteredRides, pc, arg, reqCopy, notifCopy, last,
          ratings, users, call, ret>>

\* ------------------------------------------------------------- helpers
\* rides.driver_id of the rides created in the initial state
DriverOf(r) == ((r - 1) % NumUsers) + 1

\* the ride_requests row with the given id (the set has at most one)
Req(id) == CHOOSE q \in ride_requests : q.id = id
RequestIdsIn(reqs) == {q.id : q \in reqs}

\* SELECT COUNT(*) FROM ride_passengers WHERE ride_id = r
current_passengers(r) == Cardinality(ride_passengers[r])

\* mutant: the first SELECT without its status filter
FOUND_AnyStatus(id) == \E q \in ride_requests : q.id = id

\* approve_ride_request, first SELECT: the request joined to its ride,
\* restricted to status = 'pending'
FOUND(id) == \E q \in ride_requests : q.id = id /\ q.status = "pending"

\* mutant: the seat count without the passengers already recorded
available_seats_count_Capacity(r) == rides[r].available_seats

\* approve_ride_request, second SELECT:
\* r.available_seats - COUNT(rp.passenger_id)
available_seats_count(r) == rides[r].available_seats - current_passengers(r)

\* mutant: every notification addressed to the ride's driver
create_notification_ToDriver(u, type, r) ==
    [user_id |-> DriverOf(r), type |-> type, ride_id |-> r]

\* create_notification(user_id, type, ..., data): the inserted row
create_notification(u, type, r) == [user_id |-> u, type |-> type, ride_id |-> r]

\* UPDATE ride_requests SET status = st WHERE id = id
SetStatus(reqs, id, st) ==
    {IF q.id = id THEN [q EXCEPT !.status = st] ELSE q : q \in reqs}

\* mutant: the duplicate check looking for approved requests
existingRequests_Approved(u, r) ==
    {q \in ride_requests :
        q.passenger_id = u /\ q.ride_id = r /\ q.status = "approved"}

\* handleJoinRide: existing pending requests of the user for the ride
existingRequests(u, r) ==
    {q \in ride_requests :
        q.passenger_id = u /\ q.ride_id = r /\ q.status = "pending"}

\* UNIQUE(passenger_id, ride_id) of ride_requests: would the insert collide?
UniqueViolation(u, r) ==
    \E q \in ride_requests : q.passenger_id = u /\ q.ride_id = r

\* the row handleJoinRide inserts
NewRequest(id, u, r) ==
    [id |-> id, passenger_id |-> u, ride_id |-> r, status |-> "pending",
     requested_seats |-> DefaultRequestedSeats]

\* the messages handleJoinRide shows
MsgNotFound == "Ride not found"
MsgNoSeats == "No seats available"
MsgDuplicate == "You have already requested to join this ride"
MsgFailed == "Failed to send ride request. Please try again."
MsgSent == "Ride request sent! The driver will be notified."

Idle(s) == pc[s] = "idle"
AllIdle == \A s \in Sessions : Idle(s)
\* session s may take a step: under serial scheduling no other call is running
Scheduled(s) == sched = "serial" => \A t \in Sessions \ {s} : Idle(t)
\* calls that have passed their checks and will still insert a request
InFlightInserts ==
    Cardinality({s \in Sessions : pc[s] \in {"j_insert", "l_read", "l_write"}})

\* the handler of session s returns with outcome res on argument a
Finish(s, a, res) ==
    /\ pc' = [pc EXCEPT ![s] = "idle"]
    /\ arg' = [arg EXCEPT ![s] = NoArg]
    /\ last' = [session |-> s, arg |-> a, result |-> res]

\* ---------------------------------------------------------------- Init
InitStore ==
    /\ app \in Apps
    /\ rides \in [Rides -> [available_seats : 1..MaxSeats, status : {"active"},
                          stored : {TRUE}]]
    /\ ride_passengers = [r \in Rides |-> {}]
    /\ ride_requests = {}
    /\ notifications = <<>>
    /\ nextId = 1
    /\ attempted = {}
    /\ user = [s \in Sessions |-> NoUser]
    /\ loaded = [s \in Sessions |-> {}]
    /\ filteredRides = [s \in Sessions |-> {}]
    /\ pc = [s \in Sessions |-> "idle"]
    /\ arg = [s \in Sessions |-> NoArg]
    /\ reqCopy = [s \in Sessions |-> {}]
    /\ notifCopy = [s \in Sessions |-> <<>>]
    /\ last = [session |-> 0, arg |-> NoArg, result |-> "none"]
    /\ ratings = <<>>
    /\ users = NewUsers
    /\ call = NoCall
    /\ ret = NoCall

\* every call runs to completion before the next call starts
Init == InitStore /\ sched = "serial"

\* calls of different sessions run at the same time
InitConc == InitStore /\ sched = "interleaved"

\* ------------------------------------------------------------- loadData
\* The rides a page keeps in its `rides` state for user u.  mu_ride maps
\* every row with passengers: [], so its passenger filter removes nothing.
availableRides(u) ==
    {r \in Rides :
        /\ rides[r].stored
        /\ rides[r].status = "active"
        /\ DriverOf(r) # u
        /\ (app = "shadcn-ui" => u \notin ride_passengers[r])}

\* useEffect of the SearchRides page: sets `user` and `rides`
loadData(s, u) ==
    /\ Scheduled(s)
    /\ Idle(s)
    /\ user[s] \in {NoUser, u}
    /\ user' = [user EXCEPT ![s] = u]
    /\ loaded' = [loaded EXCEPT ![s] = availableRides(u)]
    /\ filteredRides' = [filteredRides EXCEPT ![s] = availableRides(u)]
    /\ UNCHANGED <<cfgVars, dbVars, pc, arg, reqCopy, notifCopy, last>>

\* ------------------------------------------------- handleJoinRide (both)
\* Synchronous prefix of handleJoinRide up to and including the read of the
\* user's pending requests.
handleJoinRide(s, r) ==
    /\ Scheduled(s)
    /\ Idle(s)
    /\ user[s] # NoUser
    /\ IF r \notin loaded[s]
         THEN Finish(s, r, MsgNotFound)
       ELSE IF rides[r].available_seats <= 0
         THEN Finish(s, r, MsgNoSeats)
       ELSE IF existingRequests(user[s], r) # {}
         THEN Finish(s, r, MsgDuplicate)
       ELSE /\ nextId + InFlightInserts <= MaxRequests
            /\ pc' = [pc EXCEPT ![s] = IF app = "mu_ride" THEN "j_insert" ELSE "l_read"]
            /\ arg' = [arg EXCEPT ![s] = r]
            /\ UNCHANGED last
    /\ UNCHANGED <<cfgVars, dbVars, user, loaded, filteredRides, reqCopy, notifCopy>>

\* mu_ride: supabase.from("ride_requests").insert(...)
insertRequest(s) ==
    /\ Scheduled(s)
    /\ pc[s] = "j_insert"
    /\ IF UniqueViolation(user[s], arg[s])
         THEN /\ Finish(s, arg[s], MsgFailed)
              /\ UNCHANGED <<ride_requests, nextId>>
         ELSE /\ ride_requests' =
                    ride_requests \cup {NewRequest(nextId, user[s], arg[s])}
              /\ nextId' = nextId + 1
              /\ pc' = [pc EXCEPT ![s] = "j_notify"]
              /\ UNCHANGED <<arg, last>>
    /\ UNCHANGED <<cfgVars, rides, ride_passengers, notifications, attempted,
                   user, loaded, filteredRides, reqCopy, notifCopy>>

\* mu_ride: supabase.from("notifications").insert(...) for the driver
insertNotification(s) ==
    /\ Scheduled(s)
    /\ pc[s] = "j_notify"
    /\ notifications' =
          Append(notifications,
                 create_notification(DriverOf(arg[s]), "ride_request", arg[s]))
    /\ filteredRides' = [filteredRides EXCEPT ![s] = @ \ {arg[s]}]
    /\ Finish(s, arg[s], MsgSent)
    /\ UNCHANGED <<cfgVars, rides, ride_passengers, ride_requests, nextId, attempted,
                   user, loaded, reqCopy, notifCopy>>

\* shadcn-ui: rideRequestsStorage.addRequest, getRequests()
addRequest_get(s) ==
    /\ Scheduled(s)
    /\ pc[s] = "l_read"
    /\ reqCopy' = [reqCopy EXCEPT ![s] = ride_requests]
    /\ pc' = [pc EXCEPT ![s] = "l_write"]
    /\ UNCHANGED <<cfgVars, dbVars, user, loaded, filteredRides, arg, notifCopy, last>>

\* shadcn-ui: rideRequestsStorage.addRequest, push + setRequests(requests)
addRequest_set(s) ==
    /\ Scheduled(s)
    /\ pc[s] = "l_write"
    /\ ride_requests' = reqCopy[s] \cup {NewRequest(nextId, user[s], arg[s])}
    /\ nextId' = nextId + 1
    /\ reqCopy' = [reqCopy EXCEPT ![s] = {}]
    /\ pc' = [pc EXCEPT ![s] = "l_nread"]
    /\ UNCHANGED <<cfgVars, rides, ride_passengers, notifications, attempted,
                   user, loaded, filteredRides, arg, notifCopy, last>>

\* shadcn-ui: notificationsStorage.addNotification, getNotifications()
addNotification_get(s) ==
    /\ Scheduled(s)
    /\ pc[s] = "l_nread"
    /\ notifCopy' = [notifCopy EXCEPT ![s] = notifications]
    /\ pc' = [pc EXCEPT ![s] = "l_nwrite"]
    /\ UNCHANGED <<cfgVars, dbVars, user, loaded, filteredRides, arg, reqCopy, last>>

\* shadcn-ui: notificationsStorage.addNotification, unshift + setNotifications
addNotification_set(s) ==
    /\ Scheduled(s)
    /\ pc[s] = "l_nwrite"
    /\ notifications' =
          <<create_notification(DriverOf(arg[s]), "ride_request", arg[s])>>
             \o notifCopy[s]
    /\ notifCopy' = [notifCopy EXCEPT ![s] = <<>>]
    /\ filteredRides' = [filteredRides EXCEPT ![s] = @ \ {arg[s]}]
    /\ Finish(s, arg[s], MsgSent)
    /\ UNCHANGED <<cfgVars, rides, ride_passengers, ride_requests, nextId, attempted,
                   user, loaded, reqCopy>>

\* ------------------------------------------------- approve_ride_request
\* SELECT ... WHERE rr.id = request_id_param AND rr.status = 'pending';
\* IF NOT FOUND THEN RETURN FALSE
approve_select(s, id) ==
    /\ Scheduled(s)
    /\ app = "mu_ride"
    /\ Idle(s)
    /\ IF FOUND(id)
         THEN /\ pc' = [pc EXCEPT ![s] = "a_seats"]
              /\ arg' = [arg EXCEPT ![s] = id]
              /\ UNCHANGED <<last, attempted>>
         ELSE /\ Finish(s, id, "FALSE")
              /\ attempted' = attempted \cup (RequestIdsIn(ride_requests) \cap {id})
    /\ UNCHANGED <<cfgVars, rides, ride_passengers, ride_requests, notifications,
                   nextId, user, loaded, filteredRides, reqCopy, notifCopy>>

\* SELECT (r.available_seats - COUNT(rp.passenger_id)) ...;
\* IF available_seats_count < request_record.requested_seats THEN RETURN FALSE
approve_seats(s) ==
    /\ Scheduled(s)
    /\ pc[s] = "a_seats"
    /\ IF available_seats_count(Req(arg[s]).ride_id) < Req(arg[s]).requested_seats
         THEN /\ Finish(s, arg[s], "FALSE")
              /\ attempted' = attempted \cup {arg[s]}
         ELSE /\ pc' = [pc EXCEPT ![s] = "a_write"]
              /\ UNCHANGED <<arg, last, attempted>>
    /\ UNCHANGED <<cfgVars, rides, ride_passengers, ride_requests, notifications,
                   nextId, user, loaded, filteredRides, reqCopy, notifCopy>>

\* UPDATE ride_requests; INSERT INTO ride_passengers; create_notification;
\* RETURN TRUE.  The writes of the function become visible together when its
\* transaction commits.  UNIQUE(ride_id, passenger_id) of ride_passengers
\* aborts the call, undoing the UPDATE, when the passenger row exists.
approve_write(s) ==
    /\ Scheduled(s)
    /\ pc[s] = "a_write"
    /\ attempted' = attempted \cup {arg[s]}
    /\ LET q == Req(arg[s])
       IN IF q.passenger_id \in ride_passengers[q.ride_id]
            THEN /\ Finish(s, arg[s], "ERROR")
                 /\ UNCHANGED <<ride_requests, ride_passengers, notifications>>
            ELSE /\ ride_requests' = SetStatus(ride_requests, q.id, "approved")
                 /\ ride_passengers' =
                       [ride_passengers EXCEPT
                          ![q.ride_id] = @ \cup {q.passenger_id}]
                 /\ notifications' =
                       Append(notifications,
                              create_notification(q.passenger_id, "ride_approved",
                                                  q.ride_id))
                 /\ Finish(s, arg[s], "TRUE")
    /\ UNCHANGED <<cfgVars, rides, nextId, user, loaded, filteredRides, reqCopy, notifCopy>>

\* --------------------------------------------- generic store operations
\* mu_ride: policy "Drivers can update requests for their rides" (UPDATE);
\* shadcn-ui: rideRequestsStorage.updateRequest(requestId, {status}).
\* Rejecting a request is updateRequest with status 'rejected'.
updateRequest(id, st) ==
    /\ AllIdle
    /\ id \in RequestIdsIn(ride_requests)
    /\ ride_requests' = SetStatus(ride_requests, id, st)
    /\ UNCHANGED <<cfgVars, rides, ride_passengers, notifications, nextId, attempted,
                   sessVars>>

\* mu_ride: policy "Users can join rides": INSERT INTO ride_passengers by the
\* passenger; a duplicate row is refused by UNIQUE(ride_id, passenger_id).
joinRide(u, r) ==
    /\ AllIdle
    /\ app = "mu_ride"
    /\ ride_passengers' = [ride_passengers EXCEPT ![r] = @ \cup {u}]
    /\ UNCHANGED <<cfgVars, rides, ride_requests, notifications, nextId, attempted,
                   sessVars>>

\* shadcn-ui: ridesStorage.updateRide(rideId, {passengers})
updateRide(r, ps) ==
    /\ AllIdle
    /\ app = "shadcn-ui"
    /\ ride_passengers' = [ride_passengers EXCEPT ![r] = ps]
    /\ UNCHANGED <<cfgVars, rides, ride_requests, notifications, nextId, attempted,
                   sessVars>>

\* ------------------------------------------------------- specifications
SessionStep(s) ==
    \/ \E u \in Users : loadData(s, u)
    \/ \E r \in Rides : handleJoinRide(s, r)
    \/ insertRequest(s)
    \/ insertNotification(s)
    \/ addRequest_get(s)
    \/ addRequest_set(s)
    \/ addNotification_get(s)
    \/ addNotification_set(s)
    \/ \E id \in RequestIds : approve_select(s, id)
    \/ approve_seats(s)
    \/ approve_write(s)

\* the operations of the generic store interface, between calls
StoreStep ==
    \/ \E id \in RequestIds, st \in request_status : updateRequest(id, st)
    \/ \E u \in Users, r \in Rides : joinRide(u, r)
    \/ \E r \in Rides, ps \in SUBSET Users : updateRide(r, ps)

\* all operations of the workflow and of the store interface
Next == (\E s \in Sessions : SessionStep(s)) \/ StoreStep

Spec == Init /\ [][Next]_vars

\* handleJoinRide and approve_ride_request calls of different sessions with
\* their steps interleaved
NextConc == \E s \in Sessions : SessionStep(s)

SpecConc == InitConc /\ [][NextConc]_vars

\* ------------------------------------------- failing notification inserts
\* mu_ride handleJoinRide: the notifications insert returns an error, which
\* is logged; the handler goes on to its success message.
insertNotification_error(s) ==
    /\ Scheduled(s)
    /\ pc[s] = "j_notify"
    /\ filteredRides' = [filteredRides EXCEPT ![s] = @ \ {arg[s]}]
    /\ Finish(s, arg[s], MsgSent)
    /\ UNCHANGED <<cfgVars, dbVars, user, loaded, reqCopy, notifCopy>>

\* shadcn-ui: localStorage.setItem throws inside storage.set, which catches
\* and logs; addNotification returns normally.
addNotification_set_error(s) ==
    /\ Scheduled(s)
    /\ pc[s] = "l_nwrite"
    /\ notifCopy' = [notifCopy EXCEPT ![s] = <<>>]
    /\ filteredRides' = [filteredRides EXCEPT ![s] = @ \ {arg[s]}]
    /\ Finish(s, arg[s], MsgSent)
    /\ UNCHANGED <<cfgVars, dbVars, user, loaded, reqCopy>>

\* approve_ride_request: the INSERT of create_notification raises.  The
\* function has no EXCEPTION block, so the error leaves the function and the
\* statement that called it is rolled back: UPDATE and INSERT are undone.
approve_write_error(s) ==
    /\ Scheduled(s)
    /\ pc[s] = "a_write"
    /\ Req(arg[s]).passenger_id \notin ride_passengers[Req(arg[s]).ride_id]
    /\ attempted' = attempted \cup {arg[s]}
    /\ Finish(s, arg[s], "ERROR")
    /\ UNCHANGED <<cfgVars, rides, ride_passengers, ride_requests, notifications,
                   nextId, user, loaded, filteredRides, reqCopy, notifCopy>>

FaultStep(s) ==
    \/ insertNotification_error(s)
    \/ addNotification_set_error(s)
    \/ approve_write_error(s)

\* the calls of the workflow, one at a time, with notification inserts that
\* may fail
NextFault == \E s \in Sessions : SessionStep(s) \/ FaultStep(s)

SpecFault == Init /\ [][NextFault]_vars

\* ---------------------------------------------------------- ride status
ride_status == {"active", "completed", "cancelled"}

\* mu_ride: policy "Drivers can update their rides": UPDATE rides SET status;
\* shadcn-ui: ridesStorage.updateRide(rideId, {status}).
updateRide_status(r, st) ==
    /\ AllIdle
    /\ rides' = [rides EXCEPT ![r].status = st]
    /\ UNCHANGED <<cfgVars, ride_passengers, ride_requests, notifications, nextId,
                   attempted, sessVars>>

\* the calls of the workflow, one at a time, and updates of a ride's status
NextRides ==
    \/ \E s \in Sessions : SessionStep(s)
    \/ \E r \in Rides, st \in ride_status : updateRide_status(r, st)

SpecRides == Init /\ [][NextRides]_vars

\* --------------------------------------------------------- ride removal
\* shadcn-ui: ridesStorage.removeRide(rideId) filters the ride out of the
\* stored array; stored is whether the ride is still in it.  The rides a page
\* has loaded stay in its state.
removeRide(r) ==
    /\ app = "shadcn-ui"
    /\ AllIdle
    /\ rides[r].stored
    /\ rides' = [rides EXCEPT ![r].stored = FALSE]
    /\ UNCHANGED <<cfgVars, ride_passengers, ride_requests, notifications, nextId,
                   attempted, sessVars>>

\* the calls of the workflow, one at a time, and removals of rides
NextRemove ==
    \/ \E s \in Sessions : SessionStep(s)
    \/ \E r \in Rides : removeRide(r)

SpecRemove == Init /\ [][NextRemove]_vars

\* ------------------------------------------------------ requested seats
\* mu_ride: policy "Users can create ride requests": INSERT INTO
\* ride_requests by the passenger with a number of seats of their choice,
\* under CHECK (requested_seats > 0) and UNIQUE(passenger_id, ride_id)
createRequest(u, r, seats) ==
    /\ app = "mu_ride"
    /\ AllIdle
    /\ nextId <= MaxRequests
    /\ seats > 0
    /\ ~UniqueViolation(u, r)
    /\ ride_requests' =
          ride_requests \cup {[NewRequest(nextId, u, r) EXCEPT !.requested_seats = seats]}
    /\ nextId' = nextId + 1
    /\ UNCHANGED <<cfgVars, rides, ride_passengers, notifications, attempted, sessVars>>

\* the calls of the workflow, one at a time, and requests for several seats
NextSeats ==
    \/ \E s \in Sessions : SessionStep(s)
    \/ \E u \in Users, r \in Rides, seats \in 0..MaxSeats : createRequest(u, r, seats)

SpecSeats == Init /\ [][NextSeats]_vars

\* ---------------------------------------------------------------- search
\* A character string is a sequence of one-character strings.  An optional
\* value is <<>> (undefined) or <<v>>.
Undefined == <<>>
LowerCaseOf == [c \in {"A", "D", "U"} |->
                  IF c = "A" THEN "a" ELSE IF c = "D" THEN "d" ELSE "u"]

\* String.prototype.toLowerCase
toLowerCase(str) ==
    [i \in DOMAIN str |->
        IF str[i] \in DOMAIN LowerCaseOf THEN LowerCaseOf[str[i]] ELSE str[i]]

\* String.prototype.includes
includes(str, sub) ==
    \E i \in 0..(Len(str) - Len(sub)) : SubSeq(str, i + 1, i + Len(sub)) = sub

\* String.prototype.trim
RECURSIVE trim(_)
trim(str) ==
    IF str = <<>> THEN str
    ELSE IF Head(str) = " " THEN trim(Tail(str))
    ELSE IF str[Len(str)] = " " THEN trim(SubSeq(str, 1, Len(str) - 1))
    ELSE str

\* Date.prototype.toDateString of a time given in hours: its calendar day
HoursPerDay == 24
toDateString(t) == t \div HoursPerDay

\* SearchFilters.handleSearch: the criteria built from the state of the form
searchCriteria(form) ==
    [fromCity |->
        IF form.fromCity # Undefined /\ trim(form.fromCity[1]) # <<>>
          THEN <<trim(form.fromCity[1])>> ELSE Undefined,
     toCity |->
        IF form.toCity # Undefined /\ trim(form.toCity[1]) # <<>>
          THEN <<trim(form.toCity[1])>> ELSE Undefined,
     departureDate |-> form.departureDate,
     maxCostPerSeat |->
        IF form.maxCostPerSeat # Undefined /\ form.maxCostPerSeat[1] > 0
          THEN form.maxCostPerSeat ELSE Undefined,
     availableSeats |->
        IF form.availableSeats # Undefined /\ form.availableSeats[1] > 0
          THEN form.availableSeats ELSE Undefined,
     genderPreference |->
        IF /\ form.genderPreference # Undefined
           /\ form.genderPreference[1] # ""
           /\ form.genderPreference[1] # "any"
          THEN form.genderPreference ELSE Undefined]

\* handleSearch, "Filter by from city" / "Filter by to city"
byCity(city, location) ==
    \/ includes(toLowerCase(location.city), toLowerCase(city))
    \/ includes(toLowerCase(location.address), toLowerCase(city))

byFromCity(criteria, rs) ==
    IF criteria.fromCity # Undefined /\ criteria.fromCity[1] # <<>>
      THEN SelectSeq(rs, LAMBDA ride : byCity(criteria.fromCity[1], ride.fromLocation))
      ELSE rs

byToCity(criteria, rs) ==
    IF criteria.toCity # Undefined /\ criteria.toCity[1] # <<>>
      THEN SelectSeq(rs, LAMBDA ride : byCity(criteria.toCity[1], ride.toLocation))
      ELSE rs

\* handleSearch, "Filter by departure date"
byDepartureDate(criteria, rs) ==
    IF criteria.departureDate # Undefined
      THEN SelectSeq(rs, LAMBDA ride :
              toDateString(ride.departureTime)
                 = toDateString(criteria.departureDate[1]))
      ELSE rs

\* mutant: rides costing exactly the maximum are dropped
byMaxCost_Strict(criteria, rs) ==
    IF criteria.maxCostPerSeat # Undefined /\ criteria.maxCostPerSeat[1] # 0
      THEN SelectSeq(rs, LAMBDA ride : ride.costPerSeat < criteria.maxCostPerSeat[1])
      ELSE rs

\* handleSearch, "Filter by max cost"
byMaxCost(criteria, rs) ==
    IF criteria.maxCostPerSeat # Undefined /\ criteria.maxCostPerSeat[1] # 0
      THEN SelectSeq(rs, LAMBDA ride : ride.costPerSeat <= criteria.maxCostPerSeat[1])
      ELSE rs

\* handleSearch, "Filter by available seats"
byAvailableSeats(criteria, rs) ==
    IF criteria.availableSeats # Undefined /\ criteria.availableSeats[1] # 0
      THEN SelectSeq(rs, LAMBDA ride :
              ride.availableSeats >= criteria.availableSeats[1])
      ELSE rs

\* handleSearch, "Filter by gender preference"
byGenderPreference(criteria, rs) ==
    IF criteria.genderPreference # Undefined /\ criteria.genderPreference[1] # ""
      THEN SelectSeq(rs, LAMBDA ride :
              \/ ride.preferences.genderPreference = "any"
              \/ ride.preferences.genderPreference = criteria.genderPreference[1])
      ELSE rs

\* handleSearch: the value of `filtered` passed to setFilteredRides
filtered(criteria, rs) ==
    byGenderPreference(criteria,
      byAvailableSeats(criteria,
        byMaxCost(criteria,
          byDepartureDate(criteria,
            byToCity(criteria,
              byFromCity(criteria, rs))))))

\* the state of the workflow while a function of the libraries is exercised
\* on its own
LibraryIdle ==
    /\ sched = "serial"
    /\ rides = [r \in Rides |-> [available_seats |-> 1, status |-> "active"]]
    /\ ride_passengers = [r \in Rides |-> {}]
    /\ ride_requests = {}
    /\ notifications = <<>>
    /\ nextId = 1
    /\ attempted = {}
    /\ user = [s \in Sessions |-> NoUser]
    /\ loaded = [s \in Sessions |-> {}]
    /\ filteredRides = [s \in Sessions |-> {}]
    /\ pc = [s \in Sessions |-> "idle"]
    /\ arg = [s \in Sessions |-> NoArg]
    /\ reqCopy = [s \in Sessions |-> {}]
    /\ notifCopy = [s \in Sessions |-> <<>>]
    /\ last = [session |-> 0, arg |-> NoArg, result |-> "none"]

\* the rides a page can hold: two places, two departure times on different
\* days, two prices, one or two seats, for anyone or for men only
MaxCandidates == 2
Locations ==
    {[city |-> <<"A", "u">>, address |-> <<"D", "A">>],
     [city |-> <<"D", "a">>, address |-> <<"e">>]}
PageRides ==
    {[fromLocation |-> from, toLocation |-> to, departureTime |-> t,
      costPerSeat |-> c, availableSeats |-> n,
      preferences |-> [genderPreference |-> g]] :
        from \in Locations, to \in Locations, t \in {10, 30}, c \in {20, 50},
        n \in 1..2, g \in {"any", "male"}}
CandidateLists ==
    UNION {[1..k -> {ride \in PageRides : ride.fromLocation # ride.toLocation}] :
              k \in 0..MaxCandidates}

\* what the search form can hold when "Search Rides" is pressed
TextInputs == {<<" ">>, <<"A", "U">>, <<" ", "d", "a">>}
Forms ==
    [fromCity : {<<t>> : t \in TextInputs},
     toCity : {<<t>> : t \in TextInputs},
     departureDate : {Undefined, <<20>>, <<40>>},
     maxCostPerSeat : {Undefined, <<0>>, <<20>>},
     availableSeats : {Undefined, <<1>>, <<2>>},
     genderPreference : {Undefined, <<"any">>, <<"male">>, <<"female">>}]

InitSearch ==
    /\ LibraryIdle
    /\ app = "shadcn-ui"
    /\ ratings = <<>>
    /\ users = NewUsers
    /\ call \in {[fn |-> "handleSearch", rides |-> rs] : rs \in CandidateLists}
    /\ ret = NoCall

\* SearchFilters "Search Rides" button -> onSearch = handleSearch of the page
onSearch(form) ==
    /\ call.fn = "handleSearch"
    /\ ret.fn = "none"
    /\ ret' = [fn |-> "handleSearch", criteria |-> searchCriteria(form),
               filteredRides |-> filtered(searchCriteria(form), call.rides)]
    /\ UNCHANGED <<app, sched, ratings, users, call, dbVars, sessVars>>

\* SearchFilters "Clear" button -> onClear = handleClearSearch of the page
onClear ==
    /\ call.fn = "handleSearch"
    /\ ret.fn = "none"
    /\ ret' = [fn |-> "handleClearSearch", filteredRides |-> call.rides]
    /\ UNCHANGED <<app, sched, ratings, users, call, dbVars, sessVars>>

NextSearch == (\E form \in Forms : onSearch(form)) \/ onClear

SpecSearch == InitSearch /\ [][NextSearch]_vars

\* ------------------------------------------------ search on the page
\* The row the page holds for ride r.  availableSeats is the available_seats
\* column (auth.ts: availableSeats: ride.available_seats; shadcn-ui: the stored
\* field); the columns the workflow never writes are the same for every ride.
pageRide(r) ==
    [fromLocation |-> [city |-> <<"A", "u">>, address |-> <<"D", "A">>],
     toLocation |-> [city |-> <<"D", "a">>, address |-> <<"e">>],
     departureTime |-> 10, costPerSeat |-> 20,
     availableSeats |-> rides[r].available_seats,
     preferences |-> [genderPreference |-> "any"]]

\* the form states tried on the page: price and seats wanted
PageForms ==
    {form \in Forms :
        /\ form.fromCity = <<<<" ">>>>
        /\ form.toCity = <<<<" ">>>>
        /\ form.departureDate = Undefined
        /\ form.genderPreference = Undefined}

\* handleSearch of the page of session s
handleSearch(s, form) ==
    /\ Scheduled(s)
    /\ Idle(s)
    /\ user[s] # NoUser
    /\ filteredRides' =
          [filteredRides EXCEPT
             ![s] = {r \in loaded[s] :
                        filtered(searchCriteria(form), <<pageRide(r)>>) # <<>>}]
    /\ UNCHANGED <<cfgVars, dbVars, user, loaded, pc, arg, reqCopy, notifCopy, last>>

\* handleClearSearch of the page of session s
handleClearSearch(s) ==
    /\ Scheduled(s)
    /\ Idle(s)
    /\ user[s] # NoUser
    /\ filteredRides' = [filteredRides EXCEPT ![s] = loaded[s]]
    /\ UNCHANGED <<cfgVars, dbVars, user, loaded, pc, arg, reqCopy, notifCopy, last>>

SearchStep(s) ==
    \/ \E form \in PageForms : handleSearch(s, form)
    \/ handleClearSearch(s)

\* the calls of the workflow, one at a time, and searches on the pages
NextPage == \E s \in Sessions : SessionStep(s) \/ SearchStep(s)

SpecPage == Init /\ [][NextPage]_vars

\* --------------------------------------------------------------- ratings
MaxRatings == 3
NumRaters == 2
Raters == 1..NumRaters
\* the scores tried: below, at and above the ends of the 1..5 scale
Scores == {0, 1, 4, 5, 6}
RatingRows ==
    [rater_id : Raters, rated_user_id : Raters, ride_id : Rides,
     type : {"driver", "passenger"}, score : Scores]

\* the ratings whose rated user is u, as indices into the ratings
userRatings(u) == {i \in DOMAIN ratings : ratings[i].rated_user_id = u}

RECURSIVE totalScore(_, _)
\* the sum of the scores of the rows rs at the indices in idx
totalScore(rs, idx) ==
    IF idx = {} THEN 0
    ELSE LET i == CHOOSE j \in idx : TRUE
         IN rs[i].score + totalScore(rs, idx \ {i})

\* COALESCE(AVG(score::DECIMAL), 0.0) stored in rating DECIMAL(3,2): the mean
\* rounded half up to hundredths, written in hundredths
avg_rating(rs, idx) ==
    IF idx = {} THEN 0
    ELSE (200 * totalScore(rs, idx) + Cardinality(idx)) \div (2 * Cardinality(idx))

\* mutant: the new rating is the mean of the stored rating and the mean score
calculateUserRating_Running(u) ==
    IF userRatings(u) = {} THEN 0
    ELSE (users[u].rating
            + 10 * ((20 * totalScore(ratings, userRatings(u)) + Cardinality(userRatings(u)))
                      \div (2 * Cardinality(userRatings(u))))) \div 2

\* ratingsStorage.calculateUserRating: Math.round(mean * 10) / 10, written in
\* hundredths
calculateUserRating(u) ==
    IF userRatings(u) = {} THEN 0
    ELSE 10 * ((20 * totalScore(ratings, userRatings(u)) + Cardinality(userRatings(u)))
                 \div (2 * Cardinality(userRatings(u))))

\* UNIQUE(rater_id, rated_user_id, ride_id, type) would refuse the row
ratings_unique_violation(row) ==
    \E i \in DOMAIN ratings :
       /\ ratings[i].rater_id = row.rater_id
       /\ ratings[i].rated_user_id = row.rated_user_id
       /\ ratings[i].ride_id = row.ride_id
       /\ ratings[i].type = row.type

\* the trigger function update_user_rating for NEW.rated_user_id = u: the
\* user's rating and total_ratings are set from the rows rs of ratings
update_user_rating(us, rs, u) ==
    LET idx == {i \in DOMAIN rs : rs[i].rated_user_id = u}
    IN [us EXCEPT ![u] = [rating |-> avg_rating(rs, idx),
                          total_ratings |-> Cardinality(idx)]]

\* mu_ride: INSERT INTO ratings under CHECK (score >= 1 AND score <= 5) and
\* the UNIQUE constraint, followed in the same statement by the trigger
\* update_user_rating
insertRating(row) ==
    /\ app = "mu_ride"
    /\ Len(ratings) < MaxRatings
    /\ IF ~(row.score >= 1 /\ row.score <= 5)
         THEN /\ ret' = [fn |-> "insertRating", result |-> "check_violation"]
              /\ UNCHANGED <<ratings, users>>
       ELSE IF ratings_unique_violation(row)
         THEN /\ ret' = [fn |-> "insertRating", result |-> "unique_violation"]
              /\ UNCHANGED <<ratings, users>>
       ELSE /\ ratings' = Append(ratings, row)
            /\ users' = update_user_rating(users, ratings', row.rated_user_id)
            /\ ret' = [fn |-> "insertRating", result |-> "ok"]
    /\ UNCHANGED <<app, sched, call, dbVars, sessVars>>

\* shadcn-ui: ratingsStorage.addRating
addRating(row) ==
    /\ app = "shadcn-ui"
    /\ Len(ratings) < MaxRatings
    /\ ratings' = Append(ratings, row)
    /\ ret' = [fn |-> "addRating", result |-> "ok"]
    /\ UNCHANGED <<app, sched, users, call, dbVars, sessVars>>

\* shadcn-ui: login, "Update user rating from ratings"
login(u) ==
    /\ app = "shadcn-ui"
    /\ users' = [users EXCEPT ![u].rating = calculateUserRating(u)]
    /\ ret' = [fn |-> "login", result |-> "ok", user |-> u,
               repeated |-> ret.fn = "login" /\ ret.user = u]
    /\ UNCHANGED <<app, sched, ratings, call, dbVars, sessVars>>

InitRatings ==
    /\ LibraryIdle
    /\ app \in Apps
    /\ ratings = <<>>
    /\ users = NewUsers
    /\ call = NoCall
    /\ ret = NoCall

NextRatings ==
    \/ \E row \in RatingRows : insertRating(row)
    \/ \E row \in RatingRows : addRating(row)
    \/ \E u \in Raters : login(u)

SpecRatings == InitRatings /\ [][NextRatings]_vars

\* ------------------------------------------------------- cost calculator
\* Amounts of money are written in thousandths of the currency unit, so a
\* cent is 10.  A quotient is kept as numerator and denominator; floating
\* point error of the division is not modelled.
MaxTotalCost == 60
MaxPassengers == 3
TotalCosts == (-25)..MaxTotalCost \cup {1000, 1005, 10000}
PassengerLists == UNION {[1..k -> Users] : k \in 0..MaxPassengers}

\* mutant: shares cut off after the second decimal
round2_Truncate(num, den) == 10 * (num \div (10 * den))

\* Math.round(x * 100) / 100 for x = num / den: Math.round is floor(y + 0.5)
round2(num, den) == 10 * ((2 * num + 10 * den) \div (20 * den))

\* mutant: the driver always counts as a participant
participants_WithDriver(numberOfPassengers, includeDriverInSplit) ==
    numberOfPassengers + 1

\* calculateRideCost: the number the total cost is divided by
participants(numberOfPassengers, includeDriverInSplit) ==
    IF includeDriverInSplit THEN numberOfPassengers + 1 ELSE numberOfPassengers

\* calculateRideCost(params); includeDriverInSplit defaults to false
calculateRideCost(params) ==
    LET totalCost == params.totalCost
        passengerIds == params.passengerIds
        includeDriverInSplit ==
            IF params.includeDriverInSplit = Undefined
              THEN FALSE ELSE params.includeDriverInSplit[1]
        numberOfPassengers == Len(passengerIds)
        den == participants(numberOfPassengers, includeDriverInSplit)
    IN IF numberOfPassengers = 0
         THEN [totalCost |-> totalCost, costPerSeat |-> totalCost,
               numberOfPassengers |-> 0, driverShare |-> totalCost,
               passengerShares |-> <<>>]
         ELSE [totalCost |-> totalCost,
               costPerSeat |-> round2(totalCost, den),
               numberOfPassengers |-> numberOfPassengers,
               driverShare |->
                  IF includeDriverInSplit THEN round2(totalCost, den) ELSE round2(0, 1),
               passengerShares |->
                  [i \in 1..numberOfPassengers |->
                      [userId |-> passengerIds[i],
                       amount |-> round2(totalCost, den)]]]

\* a JavaScript number that may not be finite: the result of a division by 0
Finite(v) == [kind |-> "finite", value |-> v]
NaN == [kind |-> "NaN", value |-> 0]
Infinity == [kind |-> "Infinity", value |-> 1]
NegativeInfinity == [kind |-> "-Infinity", value |-> -1]

\* Math.round(x * 100) / 100 of the quotient x = num / den of two finite
\* numbers, den >= 0: 0/0 is NaN, n/0 is an infinity of the sign of n
round2OfQuotient(num, den) ==
    IF den = 0
      THEN IF num = 0 THEN NaN ELSE IF num > 0 THEN Infinity ELSE NegativeInfinity
      ELSE Finite(round2(num, den))

\* the value of an optional argument, the default when it is not given
orDefault(opt, default) == IF opt = Undefined THEN default ELSE opt[1]

\* default arguments, in thousandths of a currency unit
DefaultFuelEfficiency == 12
DefaultFuelPrice == 1500
DefaultAdditionalCostsPerKm == 100
DefaultCostPerHour == 10000
DefaultWearAndTearRate == 150
DefaultTimeValue == 8000
DefaultProfitMargin == 100

\* calculateDistanceBasedCost: (distanceKm / efficiency) * price +
\* distanceKm * additional, rounded; no argument is tested
calculateDistanceBasedCost(distanceKm, fuelEfficiencyKmPerLiter, fuelPricePerLiter, additionalCostsPerKm) ==
    round2OfQuotient(distanceKm * fuelPricePerLiter
                       + distanceKm * additionalCostsPerKm * fuelEfficiencyKmPerLiter,
                     fuelEfficiencyKmPerLiter)

\* calculateTimeBasedCost: (durationMinutes / 60) * costPerHour, rounded
calculateTimeBasedCost(durationMinutes, costPerHour) ==
    round2OfQuotient(durationMinutes * costPerHour, 60)

\* calculateSuggestedPrice: ((fuelCost + timeCost) * (1 + profitMargin)) /
\* numberOfSeats, rounded; an infinite or NaN fuel cost stays what it is
calculateSuggestedPrice(distanceKm, durationMinutes, numberOfSeats, options) ==
    LET fuelCost == calculateDistanceBasedCost(distanceKm,
                        orDefault(options.fuelEfficiency, DefaultFuelEfficiency),
                        orDefault(options.fuelPrice, DefaultFuelPrice),
                        orDefault(options.wearAndTearRate, DefaultWearAndTearRate))
        timeCost == calculateTimeBasedCost(durationMinutes,
                        orDefault(options.timeValue, DefaultTimeValue))
        profitMargin == orDefault(options.profitMargin, DefaultProfitMargin)
    IN IF fuelCost.kind # "finite"
         THEN fuelCost
         ELSE round2OfQuotient((fuelCost.value + timeCost.value) * (1000 + profitMargin),
                               1000 * numberOfSeats)

\* mutant: the percentage is computed for every originalCost other than 0
calculateSavings_GuardNonZero(originalCost, sharedCost) ==
    LET savings == originalCost - sharedCost
    IN [savings |-> round2(savings, 1),
        percentage |-> IF originalCost > 0
                         THEN round2(savings * 100 * 1000, originalCost)
                         ELSE IF originalCost < 0
                           THEN round2((-savings) * 100 * 1000, -originalCost)
                           ELSE round2(0, 1)]

\* calculateSavings: the percentage is 0 unless originalCost > 0
calculateSavings(originalCost, sharedCost) ==
    LET savings == originalCost - sharedCost
    IN [savings |-> round2(savings, 1),
        percentage |-> IF originalCost > 0
                         THEN round2(savings * 100 * 1000, originalCost)
                         ELSE round2(0, 1)]

\* Intl.NumberFormat('en-US', {style: 'currency', currency: 'USD', ...}):
\* the least number of fraction digits each application asks for
minimumFractionDigits == IF app = "mu_ride" THEN 2 ELSE 0

DigitChars == <<"0", "1", "2", "3", "4", "5", "6", "7", "8", "9">>

\* the decimal digits of a natural number
RECURSIVE digitsOf(_)
digitsOf(n) ==
    IF n < 10 THEN <<DigitChars[n + 1]>>
              ELSE Append(digitsOf(n \div 10), DigitChars[(n % 10) + 1])

\* the integer part with a comma between groups of three digits
RECURSIVE grouped(_)
grouped(n) ==
    IF n < 1000
      THEN digitsOf(n)
      ELSE grouped(n \div 1000) \o <<",">>
             \o <<DigitChars[((n % 1000) \div 100) + 1],
                  DigitChars[((n % 100) \div 10) + 1],
                  DigitChars[(n % 10) + 1]>>

\* the fraction of an amount of cents: trailing zeros are dropped down to
\* the least number of digits asked for, and no digit means no point
fractionOf(cents, minDigits) ==
    LET tens == (cents % 100) \div 10
        ones == cents % 10
        used == IF ones # 0 THEN 2 ELSE IF tens # 0 THEN 1 ELSE 0
        shown == IF used > minDigits THEN used ELSE minDigits
    IN IF shown = 0 THEN <<>>
       ELSE IF shown = 1 THEN <<".", DigitChars[tens + 1]>>
       ELSE <<".", DigitChars[tens + 1], DigitChars[ones + 1]>>

\* formatCurrency(amount): the amount is rounded to cents, ties away from
\* zero, and written as sign, "$", grouped integer part, fraction
formatCurrency(amount) ==
    LET magnitude == IF amount < 0 THEN -amount ELSE amount
        cents == (magnitude + 5) \div 10
    IN (IF amount < 0 THEN <<"-">> ELSE <<>>) \o <<"$">>
         \o grouped(cents \div 100) \o fractionOf(cents, minimumFractionDigits)

\* the arguments the functions are called with
Distances == (-2)..3
Efficiencies == {Undefined, <<0>>, <<8>>}
FuelPrices == {Undefined, <<0>>, <<1250>>}
PerKmCosts == {Undefined, <<0>>, <<125>>}
Durations == {-45, 0, 3, 45}
HourlyCosts == {Undefined, <<100>>}
SeatCounts == 0..2
ProfitMargins == {Undefined, <<0>>}
OriginalCosts == {-100, 0, 125, 3000, 10000}
SharedCosts == {0, 125, 250, 1000, 7000}
Amounts == {-10500, 0, 4, 125, 10000, 10500, 12340, 999990, 1234500}

RideCostCalls ==
    [fn : {"calculateRideCost"}, totalCost : TotalCosts,
     passengerIds : PassengerLists,
     includeDriverInSplit : {Undefined, <<FALSE>>, <<TRUE>>}]
DistanceCalls ==
    [fn : {"calculateDistanceBasedCost"}, distanceKm : Distances,
     otherDistanceKm : Distances,
     fuelEfficiencyKmPerLiter : Efficiencies, fuelPricePerLiter : FuelPrices,
     additionalCostsPerKm : PerKmCosts]
TimeCalls ==
    [fn : {"calculateTimeBasedCost"}, durationMinutes : Durations,
     costPerHour : HourlyCosts]
SuggestedPriceCalls ==
    [fn : {"calculateSuggestedPrice"}, distanceKm : Distances,
     durationMinutes : Durations, numberOfSeats : SeatCounts,
     options : [fuelEfficiency : Efficiencies, fuelPrice : {Undefined},
                wearAndTearRate : PerKmCosts, timeValue : HourlyCosts,
                profitMargin : ProfitMargins]]
SavingsCalls ==
    [fn : {"calculateSavings"}, originalCost : OriginalCosts,
     sharedCost : SharedCosts]
FormatCalls == [fn : {"formatCurrency"}, amount : Amounts]

InitFare ==
    /\ LibraryIdle
    /\ app \in Apps
    /\ ratings = <<>>
    /\ users = NewUsers
    /\ call \in RideCostCalls \cup DistanceCalls \cup TimeCalls
                  \cup SuggestedPriceCalls \cup SavingsCalls \cup FormatCalls
    /\ ret = NoCall

\* a page calls calculateRideCost with the arguments drawn
callRideCost ==
    /\ call.fn = "calculateRideCost"
    /\ ret.fn = "none"
    /\ ret' = [fn |-> "calculateRideCost", result |-> calculateRideCost(call)]
    /\ UNCHANGED <<app, sched, ratings, users, call, dbVars, sessVars>>

\* a page calls calculateDistanceBasedCost for two distances, the other
\* arguments being the same; an argument not given takes its default
callDistanceBasedCost ==
    /\ call.fn = "calculateDistanceBasedCost"
    /\ ret.fn = "none"
    /\ LET fuelEfficiencyKmPerLiter ==
                orDefault(call.fuelEfficiencyKmPerLiter, DefaultFuelEfficiency)
           fuelPricePerLiter == orDefault(call.fuelPricePerLiter, DefaultFuelPrice)
           additionalCostsPerKm ==
                orDefault(call.additionalCostsPerKm, DefaultAdditionalCostsPerKm)
       IN ret' = [fn |-> "calculateDistanceBasedCost",
                  result |-> calculateDistanceBasedCost(call.distanceKm,
                                 fuelEfficiencyKmPerLiter, fuelPricePerLiter,
                                 additionalCostsPerKm),
                  otherResult |-> calculateDistanceBasedCost(call.otherDistanceKm,
                                 fuelEfficiencyKmPerLiter, fuelPricePerLiter,
                                 additionalCostsPerKm)]
    /\ UNCHANGED <<app, sched, ratings, users, call, dbVars, sessVars>>

\* a page calls calculateTimeBasedCost
callTimeBasedCost ==
    /\ call.fn = "calculateTimeBasedCost"
    /\ ret.fn = "none"
    /\ ret' = [fn |-> "calculateTimeBasedCost",
               result |-> calculateTimeBasedCost(call.durationMinutes,
                              orDefault(call.costPerHour, DefaultCostPerHour))]
    /\ UNCHANGED <<app, sched, ratings, users, call, dbVars, sessVars>>

\* a page calls calculateSuggestedPrice
callSuggestedPrice ==
    /\ call.fn = "calculateSuggestedPrice"
    /\ ret.fn = "none"
    /\ ret' = [fn |-> "calculateSuggestedPrice",
               result |-> calculateSuggestedPrice(call.distanceKm,
                              call.durationMinutes, call.numberOfSeats, call.options)]
    /\ UNCHANGED <<app, sched, ratings, users, call, dbVars, sessVars>>

\* a page calls calculateSavings
callSavings ==
    /\ call.fn = "calculateSavings"
    /\ ret.fn = "none"
    /\ ret' = [fn |-> "calculateSavings",
               result |-> calculateSavings(call.originalCost, call.sharedCost)]
    /\ UNCHANGED <<app, sched, ratings, users, call, dbVars, sessVars>>

\* a page renders an amount with formatCurrency
callFormatCurrency ==
    /\ call.fn = "formatCurrency"
    /\ ret.fn = "none"
    /\ ret' = [fn |-> "formatCurrency", result |-> formatCurrency(call.amount)]
    /\ UNCHANGED <<app, sched, ratings, users, call, dbVars, sessVars>>

NextFare ==
    \/ callRideCost
    \/ callDistanceBasedCost
    \/ callTimeBasedCost
    \/ callSuggestedPrice
    \/ callSavings
    \/ callFormatCurrency

SpecFare == InitFare /\ [][NextFare]_vars

\* ================================================================ claims
\* vocabulary of the claims, independent of the operators of the handlers
Capacity(r) == rides[r].available_seats
PassengerCount(r) == Cardinality(ride_passengers[r])
RemainingSeats(r) == Capacity(r) - PassengerCount(r)
IsPending(id) == \E q \in ride_requests : q.id = id /\ q.status = "pending"
PendingFor(u, r) ==
    {q \in ride_requests :
        q.passenger_id = u /\ q.ride_id = r /\ q.status = "pending"}
RequestsFor(r) == {q \in ride_requests : q.ride_id = r}
Returned(s, a, res) == last' = [session |-> s, arg |-> a, result |-> res]
ApprovedNotifications(r) ==
    {i \in 1..Len(notifications) :
        notifications[i].type = "ride_approved" /\ notifications[i].ride_id = r}

\* C1: a sequence of approve_ride_request calls never takes a ride's
\* passenger count above its seat capacity, and a call on a pending request
\* that would exceed the capacity returns FALSE and leaves the request
\* statuses, the passenger sets and the notifications unchanged.
C1_ApproveRespectsCapacity ==
    [][\A s \in Sessions :
         /\ (pc[s] \in {"a_seats", "a_write"} /\ pc'[s] # pc[s])
              => \A r \in Rides :
                    PassengerCount(r) <= Capacity(r)
                       => Cardinality(ride_passengers'[r]) <= Capacity(r)
         /\ (/\ pc[s] = "a_seats"
             /\ pc'[s] # "a_seats"
             /\ \E q \in ride_requests :
                   /\ q.id = arg[s]
                   /\ PassengerCount(q.ride_id) + q.requested_seats
                         > Capacity(q.ride_id))
              => /\ pc'[s] = "idle"
                 /\ Returned(s, arg[s], "FALSE")
                 /\ UNCHANGED <<ride_requests, ride_passengers, notifications>>
      ]_vars

\* C1 witness: an approval was refused for lack of seats: the request of the
\* last call is still pending and its ride is full of approved passengers.
C1_Witness ==
    /\ last.result = "FALSE"
    /\ \E q \in ride_requests :
          /\ q.id = last.arg
          /\ q.status = "pending"
          /\ PassengerCount(q.ride_id) = Capacity(q.ride_id)
          /\ \A p \in ride_passengers[q.ride_id] :
                \E a \in ride_requests :
                   a.passenger_id = p /\ a.ride_id = q.ride_id /\ a.status = "approved"

\* C2: when more requests than seats are approved concurrently for one ride,
\* never more than Capacity passengers are recorded, never more than Capacity
\* approvals succeed, and once every request has been tried exactly Capacity
\* approvals have succeeded.
C2_ExactlyCapacityApprovals ==
    \A r \in Rides :
       /\ PassengerCount(r) <= Capacity(r)
       /\ Cardinality(ApprovedNotifications(r)) <= Capacity(r)
       /\ (/\ AllIdle
           /\ Cardinality(RequestsFor(r)) > Capacity(r)
           /\ RequestIdsIn(RequestsFor(r)) \subseteq attempted)
            => Cardinality(ApprovedNotifications(r)) = Capacity(r)

\* C3: an approved or rejected request keeps its status in every later state.
C3_TerminalStatus ==
    [][\A q \in ride_requests :
          q.status \in {"approved", "rejected"}
             => \E n \in ride_requests' : n.id = q.id /\ n.status = q.status
      ]_vars

\* C4: approve_ride_request on a request id that does not exist or is not
\* pending returns FALSE and changes neither request statuses, passenger sets
\* nor notifications; an approval only ever succeeds on a pending request.
C4_ApproveNeedsPending ==
    [][\A s \in Sessions :
         /\ \A id \in RequestIds :
               (approve_select(s, id) /\ ~IsPending(id))
                  => /\ pc'[s] = "idle"
                     /\ Returned(s, id, "FALSE")
                     /\ UNCHANGED <<ride_requests, ride_passengers, notifications>>
         /\ (pc[s] = "a_write" /\ pc'[s] = "idle" /\ last'.result = "TRUE")
               => IsPending(arg[s])
      ]_vars

\* C4 witness: the last call tried to approve a request that was already
\* approved or rejected, and was refused.
C4_Witness ==
    /\ last.result = "FALSE"
    /\ \E q \in ride_requests :
          q.id = last.arg /\ q.status \in {"approved", "rejected"}
    /\ \E q \in ride_requests : q.status = "approved"
    /\ \E q \in ride_requests : q.status = "rejected"

\* C5: while a request of the user for the ride is pending, another
\* handleJoinRide of that user for that ride is refused as a duplicate (as
\* "Ride not found" when the ride is not on the caller's page) and creates
\* neither a request nor a notification.
C5_DuplicateRefused ==
    [][\A s \in Sessions, r \in Rides :
          (handleJoinRide(s, r) /\ PendingFor(user[s], r) # {})
             => /\ pc'[s] = "idle"
                /\ UNCHANGED <<ride_requests, notifications, nextId>>
                /\ IF r \in loaded[s]
                     THEN Returned(s, r, MsgDuplicate)
                     ELSE Returned(s, r, MsgNotFound)
      ]_vars

\* C5 witness: the last call was refused as a duplicate of a pending request.
C5_Witness ==
    /\ last.result = MsgDuplicate
    /\ last.session \in Sessions
    /\ Cardinality(PendingFor(user[last.session], last.arg)) = 1
    /\ Len(notifications) = 1

\* C6: at most one pending request per (user, ride) pair.
C6_OnePendingPerPair ==
    \A u \in Users, r \in Rides : Cardinality(PendingFor(u, r)) <= 1

\* C7: only the writing step of a successful approve_ride_request changes a
\* ride's passenger set.
C7_OnlyApproveChangesPassengers ==
    [][ride_passengers' # ride_passengers
          => \E s \in Sessions :
                pc[s] = "a_write" /\ pc'[s] = "idle" /\ last'.result = "TRUE"
      ]_vars

\* C8: an approve_ride_request that returns TRUE sets the status of its
\* request to approved, adds the requester to the passengers of the request's
\* ride, and appends exactly one ride_approved notification addressed to the
\* requester; nothing else in the store changes.
C8_ApproveEffects ==
    [][\A s \in Sessions :
          (pc[s] = "a_write" /\ pc'[s] = "idle" /\ last'.result = "TRUE")
             => \E q \in ride_requests :
                   /\ q.id = arg[s]
                   /\ ride_requests' =
                         (ride_requests \ {q}) \cup {[q EXCEPT !.status = "approved"]}
                   /\ ride_passengers' =
                         [r \in Rides |->
                            IF r = q.ride_id
                              THEN ride_passengers[r] \cup {q.passenger_id}
                              ELSE ride_passengers[r]]
                   /\ notifications' =
                         Append(notifications,
                                [user_id |-> q.passenger_id,
                                 type |-> "ride_approved",
                                 ride_id |-> q.ride_id])
      ]_vars

\* C8 witness: the last call approved a request: the request is approved, its
\* requester is a passenger and the newest notification tells the requester.
C8_Witness ==
    /\ last.result = "TRUE"
    /\ \E q \in ride_requests :
          /\ q.id = last.arg
          /\ q.status = "approved"
          /\ q.passenger_id \in ride_passengers[q.ride_id]
          /\ Len(notifications) > 0
          /\ notifications[Len(notifications)] =
                [user_id |-> q.passenger_id, type |-> "ride_approved",
                 ride_id |-> q.ride_id]

\* C9: a handleJoinRide that has passed the not-found, capacity and duplicate
\* checks adds exactly one pending request with one seat for (user, ride) and
\* then one ride_request notification addressed to the ride's driver.
C9_JoinCreatesRequest ==
    [][\A s \in Sessions :
         /\ (pc[s] \in {"j_insert", "l_write"} /\ pc'[s] # pc[s])
               => /\ \E id \in RequestIds \ RequestIdsIn(ride_requests) :
                        ride_requests' = ride_requests \cup
                           {[id |-> id, passenger_id |-> user[s], ride_id |-> arg[s],
                             status |-> "pending", requested_seats |-> 1]}
                  /\ pc'[s] # "idle"
         /\ (pc[s] \in {"j_notify", "l_nwrite"} /\ pc'[s] # pc[s])
               => /\ Len(notifications') = Len(notifications) + 1
                  /\ \E i \in 1..Len(notifications') :
                        notifications'[i] =
                           [user_id |-> DriverOf(arg[s]), type |-> "ride_request",
                            ride_id |-> arg[s]]
                  /\ Returned(s, arg[s], MsgSent)
      ]_vars

\* C10: handleJoinRide for a ride on the caller's page whose remaining seats
\* are zero or less is refused with "No seats available" and creates neither
\* a request nor a notification.
C10_JoinNeedsSeat ==
    [][\A s \in Sessions, r \in Rides :
          (handleJoinRide(s, r) /\ r \in loaded[s] /\ RemainingSeats(r) <= 0)
             => /\ pc'[s] = "idle"
                /\ Returned(s, r, MsgNoSeats)
                /\ UNCHANGED <<ride_requests, notifications, nextId>>
      ]_vars

\* C11: a failing notification insert never undoes or fails the primary
\* mutation: in handleJoinRide the new request stays and the call reports
\* success; in approve_ride_request the request ends approved and its
\* requester is a passenger of the ride.
C11_NotificationFailureKeepsMutation ==
    [][\A s \in Sessions :
         /\ (insertNotification_error(s) \/ addNotification_set_error(s))
               => /\ PendingFor(user[s], arg[s]) # {}
                  /\ ride_requests' = ride_requests
                  /\ Returned(s, arg[s], MsgSent)
         /\ approve_write_error(s)
               => \E q \in ride_requests' :
                     /\ q.id = arg[s]
                     /\ q.status = "approved"
                     /\ q.passenger_id \in ride_passengers'[q.ride_id]
      ]_vars

\* C12: a search returns exactly the rides of the page that satisfy every
\* criterion that is present (from/to city a case-insensitive substring of
\* the city or the address, departure on the same day, cost per seat at most
\* the maximum, at least the wanted seats, gender preference "any" or equal),
\* in the order of the page, none added, duplicated or reordered.
C12_SearchIsOrderedSubsequence ==
    ret.fn = "handleSearch"
             => LET c == ret.criteria
                    Lower(str) ==
                       [i \in DOMAIN str |->
                           CASE str[i] = "A" -> "a"
                             [] str[i] = "D" -> "d"
                             [] str[i] = "U" -> "u"
                             [] OTHER -> str[i]]
                    Within(sub, str) ==
                       \E off \in 0..Len(str) :
                          /\ off + Len(sub) <= Len(str)
                          /\ \A k \in 1..Len(sub) :
                                Lower(str)[off + k] = Lower(sub)[k]
                    Near(text, loc) ==
                       Within(text, loc.city) \/ Within(text, loc.address)
                    Satisfies(ride) ==
                       /\ c.fromCity # <<>> => Near(c.fromCity[1], ride.fromLocation)
                       /\ c.toCity # <<>> => Near(c.toCity[1], ride.toLocation)
                       /\ c.departureDate # <<>>
                             => ride.departureTime \div 24 = c.departureDate[1] \div 24
                       /\ c.maxCostPerSeat # <<>>
                             => ride.costPerSeat <= c.maxCostPerSeat[1]
                       /\ c.availableSeats # <<>>
                             => ride.availableSeats >= c.availableSeats[1]
                       /\ c.genderPreference # <<>>
                             => ride.preferences.genderPreference
                                   \in {"any", c.genderPreference[1]}
                    kept == {i \in 1..Len(call.rides) : Satisfies(call.rides[i])}
                    out == ret.filteredRides
                IN \E pos \in [1..Len(out) -> kept] :
                      /\ \A i \in 1..Len(out) : out[i] = call.rides[pos[i]]
                      /\ \A i, j \in 1..Len(out) : i < j => pos[i] < pos[j]
                      /\ \A i \in kept : \E j \in 1..Len(out) : pos[j] = i

\* C12 witness: of two different rides on the page, a search kept only the
\* second.
C12_Witness ==
    /\ call.fn = "handleSearch"
    /\ ret.fn = "handleSearch"
    /\ Len(call.rides) = 2
    /\ call.rides[1] # call.rides[2]
    /\ ret.filteredRides = <<call.rides[2]>>

\* the page of session s shows what loading it now would show
PageIsCurrent(s) == user[s] # NoUser /\ loaded[s] = availableRides(user[s])

\* C13: a search for rides with at least n seats on a page that is up to date
\* offers a ride only if its remaining seats (capacity minus passengers) are
\* at least n.
C13_SearchUsesRemainingSeats ==
    [][\A s \in Sessions, form \in PageForms :
          (/\ handleSearch(s, form)
           /\ PageIsCurrent(s)
           /\ form.availableSeats # <<>>)
             => \A r \in filteredRides'[s] :
                   RemainingSeats(r) >= form.availableSeats[1]
      ]_vars

\* C14: a search on a page that is up to date never offers a ride that is
\* not active, a ride driven by the searching user, or a ride of which the
\* searching user is a passenger.
C14_SearchExcludesOwnAndJoined ==
    [][\A s \in Sessions, form \in PageForms :
          (handleSearch(s, form) /\ PageIsCurrent(s))
             => \A r \in filteredRides'[s] :
                   /\ rides[r].status = "active"
                   /\ DriverOf(r) # user[s]
                   /\ user[s] \notin ride_passengers[r]
      ]_vars

\* vocabulary of the rating claims
RatingsOf(u) == {i \in 1..Len(ratings) : ratings[i].rated_user_id = u}
RECURSIVE ScoreSum(_)
ScoreSum(idx) ==
    IF idx = {} THEN 0
    ELSE LET i == CHOOSE j \in idx : TRUE IN ratings[i].score + ScoreSum(idx \ {i})

\* C15: every user's stored rating is the mean of the scores of the ratings
\* whose rated user is that user (within the half hundredth the two-decimal
\* column allows; 0 when there are none), and the stored rating count, where
\* one is stored, is the number of those ratings.
C15_AggregateIsMean ==
    \A u \in Users :
       LET n == Cardinality(RatingsOf(u))
       IN /\ n = 0 => users[u].rating = 0
          /\ n > 0 => /\ 2 * n * users[u].rating <= 200 * ScoreSum(RatingsOf(u)) + n
                      /\ 2 * n * users[u].rating >= 200 * ScoreSum(RatingsOf(u)) - n
          /\ app = "mu_ride" => users[u].total_ratings = n

\* C16: at most one rating per (rater, rated user, ride, type).
C16_OneRatingPerTuple ==
    \A i, j \in 1..Len(ratings) :
       (/\ ratings[i].rater_id = ratings[j].rater_id
        /\ ratings[i].rated_user_id = ratings[j].rated_user_id
        /\ ratings[i].ride_id = ratings[j].ride_id
        /\ ratings[i].type = ratings[j].type)
          => i = j

\* C17: every stored rating has a score between 1 and 5.
C17_ScoreInRange ==
    \A i \in 1..Len(ratings) : ratings[i].score >= 1 /\ ratings[i].score <= 5

\* C18: a ride that is completed or cancelled keeps its status in every later
\* state, and an active ride only moves to completed or cancelled.
C18_RideStatusForwardOnly ==
    [][\A r \in Rides :
          /\ rides[r].status \in {"completed", "cancelled"}
                => rides'[r].status = rides[r].status
          /\ rides[r].status = "active"
                => rides'[r].status \in {"active", "completed", "cancelled"}
      ]_vars

\* vocabulary of the fare claims: r (in thousandths) is num / den rounded to
\* the nearest cent, halves upwards
IsRounded2(r, num, den) ==
    /\ r % 10 = 0
    /\ 2 * num - 10 * den < 2 * r * den
    /\ 2 * r * den <= 2 * num + 10 * den
RECURSIVE SumOfShares(_)
SumOfShares(shares) ==
    IF shares = <<>> THEN 0 ELSE Head(shares).amount + SumOfShares(Tail(shares))

C20_SharesSumToTotal ==
    (/\ ret.fn = "calculateRideCost"
     /\ call.totalCost >= 0
     /\ Len(call.passengerIds) > 0
     /\ call.includeDriverInSplit # <<TRUE>>)
       => /\ SumOfShares(ret.result.passengerShares) - call.totalCost
                <= 10 * Len(call.passengerIds)
          /\ call.totalCost - SumOfShares(ret.result.passengerShares)
                <= 10 * Len(call.passengerIds)
          /\ ret.result.driverShare = 0

\* C20 witness: three passengers split a cost that is not a multiple of three
\* cents, so the shares do not add up to it.
C20_Witness ==
    /\ ret.fn = "calculateRideCost"
    /\ call.totalCost > 0
    /\ Len(call.passengerIds) = 3
    /\ call.includeDriverInSplit # <<TRUE>>
    /\ SumOfShares(ret.result.passengerShares) # call.totalCost
    /\ ret.result.driverShare = 0

\* vocabulary of the rounding claims: num / den (den > 0, in thousandths)
\* rounded to the nearest cent, a half going away from zero
RoundHalfAwayFromZero(num, den) ==
    IF num >= 0 THEN 10 * ((2 * num + 10 * den) \div (20 * den))
                ELSE -10 * ((2 * (-num) + 10 * den) \div (20 * den))
ArgOr(opt, default) == IF opt = <<>> THEN default ELSE opt[1]

\* C21: every monetary result of the fare functions (the shares of a split
\* between at least one passenger, the distance-based and time-based costs,
\* the suggested price per seat, the savings) is the exact value rounded to
\* the nearest cent with a half rounded away from zero, for negative values
\* as for positive ones.
C21_RoundsHalfAwayFromZero ==
    /\ (ret.fn = "calculateRideCost" /\ Len(call.passengerIds) > 0)
          => LET n == Len(call.passengerIds)
                 k == IF call.includeDriverInSplit = <<TRUE>> THEN n + 1 ELSE n
             IN /\ ret.result.costPerSeat = RoundHalfAwayFromZero(call.totalCost, k)
                /\ \A i \in 1..n : ret.result.passengerShares[i].amount
                                      = RoundHalfAwayFromZero(call.totalCost, k)
    /\ (ret.fn = "calculateDistanceBasedCost"
          /\ ArgOr(call.fuelEfficiencyKmPerLiter, 12) > 0)
          => LET e == ArgOr(call.fuelEfficiencyKmPerLiter, 12)
                 p == ArgOr(call.fuelPricePerLiter, 1500)
                 x == ArgOr(call.additionalCostsPerKm, 100)
                 d == call.distanceKm
             IN /\ ret.result.kind = "finite"
                /\ ret.result.value = RoundHalfAwayFromZero(d * p + d * x * e, e)
    /\ ret.fn = "calculateTimeBasedCost"
          => /\ ret.result.kind = "finite"
             /\ ret.result.value
                  = RoundHalfAwayFromZero(call.durationMinutes
                                            * ArgOr(call.costPerHour, 10000), 60)
    /\ (ret.fn = "calculateSuggestedPrice"
          /\ ArgOr(call.options.fuelEfficiency, 12) > 0
          /\ call.numberOfSeats >= 1)
          => LET e == ArgOr(call.options.fuelEfficiency, 12)
                 p == ArgOr(call.options.fuelPrice, 1500)
                 x == ArgOr(call.options.wearAndTearRate, 150)
                 d == call.distanceKm
                 fuel == RoundHalfAwayFromZero(d * p + d * x * e, e)
                 time == RoundHalfAwayFromZero(call.durationMinutes
                                                 * ArgOr(call.options.timeValue, 8000), 60)
                 margin == ArgOr(call.options.profitMargin, 100)
             IN /\ ret.result.kind = "finite"
                /\ ret.result.value
                     = RoundHalfAwayFromZero((fuel + time) * (1000 + margin),
                                             1000 * call.numberOfSeats)
    /\ ret.fn = "calculateSavings"
          => ret.result.savings
                = RoundHalfAwayFromZero(call.originalCost - call.sharedCost, 1)

\* vocabulary of the rounding claims: r is a whole number of cents nearest to
\* num / den (den > 0), whichever way a half goes
IsNearestCent(r, num, den) ==
    /\ r % 10 = 0
    /\ 2 * num - 10 * den <= 2 * r * den
    /\ 2 * r * den <= 2 * num + 10 * den

C23_NegativeDistanceFails ==
    (ret.fn = "calculateDistanceBasedCost" /\ call.distanceKm < 0)
       => /\ ret.result.kind = "InvalidArgument"
          /\ ret.otherResult.kind = "InvalidArgument" \/ call.otherDistanceKm >= 0

\* vocabulary of the fare claims: a <= b between JavaScript numbers; no
\* comparison with NaN holds
NumberLeq(a, b) ==
    /\ a.kind # "NaN"
    /\ b.kind # "NaN"
    /\ \/ a.kind = "-Infinity"
       \/ b.kind = "Infinity"
       \/ a.kind = "finite" /\ b.kind = "finite" /\ a.value <= b.value

\* C24: for a fuel efficiency, a fuel price and an extra cost per km that are
\* not negative, calculateDistanceBasedCost is 0 at distance 0, and for two
\* distances d1 <= d2 the rounded cost of d1 is at most the rounded cost of d2.
C24_DistanceCostMonotone ==
    ret.fn = "calculateDistanceBasedCost"
       => /\ call.distanceKm = 0
                => ret.result.kind = "finite" /\ ret.result.value = 0
          /\ call.distanceKm <= call.otherDistanceKm
                => NumberLeq(ret.result, ret.otherResult)

\* vocabulary of the formatting claim
Digits == {"0", "1", "2", "3", "4", "5", "6", "7", "8", "9"}

\* C25: in shadcn-ui formatCurrency(amount) ends with a point and exactly two
\* fraction digits after the dollar sign and the integer part: 10.5 gives
\* "$10.50", 10 gives "$10.00", 0 gives "$0.00".
C25_TwoFractionDigits ==
    (ret.fn = "formatCurrency" /\ app = "shadcn-ui")
       => LET r == ret.result
              n == Len(r)
          IN /\ n >= 5
             /\ \E i \in 1..2 : r[i] = "$"
             /\ r[n - 2] = "."
             /\ r[n - 1] \in Digits
             /\ r[n] \in Digits
             /\ call.amount = 10500 => r = <<"$", "1", "0", ".", "5", "0">>
             /\ call.amount = 10000 => r = <<"$", "1", "0", ".", "0", "0">>
             /\ call.amount = 0 => r = <<"$", "0", ".", "0", "0">>

InStore(r) == rides[r].stored
JoinNotifications(r) ==
    {i \in 1..Len(notifications) :
        notifications[i].type = "ride_request" /\ notifications[i].ride_id = r}

\* C27: while a ride is not in the store, a request to join it returns
\* "Ride not found" and creates no request and no notification, also when
\* the ride was removed after the caller's page had loaded it.
C27_JoinRemovedRideNotFound ==
    [][\A r \in Rides :
          (~InStore(r) /\ ~InStore(r)')
             => /\ RequestIdsIn(RequestsFor(r)') \subseteq RequestIdsIn(RequestsFor(r))
                /\ JoinNotifications(r)' \subseteq JoinNotifications(r)
                /\ (last' # last /\ last'.arg = r
                       /\ last'.result \in {MsgNotFound, MsgNoSeats, MsgDuplicate,
                                             MsgFailed, MsgSent})
                      => last'.result = MsgNotFound
      ]_vars

\* vocabulary of the passenger claims
ApprovedFor(u, r) ==
    {q \in ride_requests :
        q.passenger_id = u /\ q.ride_id = r /\ q.status = "approved"}

\* C28: in every state a user is a passenger of a ride if and only if the
\* user has an approved request for that ride.
C28_PassengerIffApproved ==
    \A r \in Rides, u \in Users :
       u \in ride_passengers[r] <=> ApprovedFor(u, r) # {}

\* vocabulary of the seat claim: the seats requested by the requests in qs
RECURSIVE SeatsOf(_)
SeatsOf(qs) ==
    IF qs = {} THEN 0
    ELSE LET q == CHOOSE x \in qs : TRUE
         IN q.requested_seats + SeatsOf(qs \ {q})
ApprovedRequests(r) ==
    {q \in ride_requests : q.ride_id = r /\ q.status = "approved"}

\* C29: after any sequence of approve_ride_request calls on requests of at
\* least one seat each, the seats requested by the approved requests of a
\* ride add up to at most the ride's capacity.
C29_ApprovedSeatsWithinCapacity ==
    \A r \in Rides : SeatsOf(ApprovedRequests(r)) <= Capacity(r)

\* vocabulary of the equivalence claim
RejectedFor(u, r) ==
    {q \in ride_requests :
        q.passenger_id = u /\ q.ride_id = r /\ q.status = "rejected"}
JoinInFlight(s) ==
    pc[s] \in {"j_insert", "j_notify", "l_read", "l_write", "l_nread", "l_nwrite"}

\* C30: both implementations accept and refuse the same requests to join:
\* a request of a user whose earlier request for the ride was rejected, and
\* which passed the tests the two handlers share (ride in the list, seats,
\* no pending request), returns "Ride request sent!" and leaves a pending
\* request of that user for that ride, in either implementation.
C30_JoinAfterRejectionAccepted ==
    [][\A s \in Sessions :
          (/\ JoinInFlight(s)
           /\ pc'[s] = "idle"
           /\ RejectedFor(user[s], arg[s]) # {})
             => /\ last'.result = MsgSent
                /\ \E q \in ride_requests' :
                      /\ q.passenger_id = user[s]
                      /\ q.ride_id = arg[s]
                      /\ q.status = "pending"
      ]_vars

====
